---- MODULE Spec2Model ----
(***************************************************************************)
(* Model of stockAnalyzisBulk (server/src/Orders/Services/stockAnalyzis.ts) *)
(*                                                                         *)
(* Conventions                                                             *)
(*  - a month identifier (order.name) is a string; it is modelled as the   *)
(*    sequence of its code units so that Array.prototype.sort's default    *)
(*    (lexicographic, code unit) order is computed and not assumed;        *)
(*  - a JavaScript object used as a map is a sequence of [key, value]      *)
(*    entries in insertion order (keys are not array indices);             *)
(*  - T | undefined is a sequence of length at most one;                   *)
(*  - average and enoughForMonths are numbers with two decimals; they are  *)
(*    held in hundredths (40.00 is 4000, 1.50 is 150).                     *)
(***************************************************************************)
EXTENDS Integers, Sequences, FiniteSets, TLC

VARIABLES
    store,                    \* the Order collection read by Order.find()
    pc,                       \* position in stockAnalyzisBulk
    orders,                   \* const orders (l.18)
    k,                        \* number of orders consumed by the loop of l.27
    monthlyConsolidatedData,  \* l.23
    productIds,               \* l.57 (a Set, in insertion order)
    p,                        \* number of product ids consumed by l.65
    monthKeys,                \* l.71
    initialStock,             \* l.67
    previousStock,            \* l.72
    totalSales,               \* l.66
    validMonths,              \* l.69
    leftOver,                 \* l.68
    i,                        \* l.86
    finalStockStatus,         \* l.56
    returned,                 \* the promise is fulfilled
    result,                   \* the value it is fulfilled with
    thrown                    \* message of the Error it is rejected with

vars == <<store, pc, orders, k, monthlyConsolidatedData, productIds, p,
          monthKeys, initialStock, previousStock, totalSales, validMonths,
          leftOver, i, finalStockStatus, returned, result, thrown>>

(***************************************************************************)
(* Bounds of the inputs                                                    *)
(***************************************************************************)
MaxOrders == 3       \* snapshots of a single-product series
MaxStock == 2        \* largest stockStatus of a raw row
MaxRows == 3         \* raw rows of a multi-row input, over all its snapshots

ProductIdSet == {"A", "B"}
\* "1" < "10" < "2": lexicographic, neither numeric nor by length
MonthIds == {<<1>>, <<1, 0>>, <<2>>}
\* the worked series of the specification, keyed "01", "02", ...
ExampleSeries == {<<100, 60, 60>>, <<50, 30, 80, 20>>}

(***************************************************************************)
(* Generic helpers                                                         *)
(***************************************************************************)
Min(S) == CHOOSE x \in S : \A y \in S : x <= y

Max(S) == CHOOSE x \in S : \A y \in S : x >= y

\* String comparison by code units, as the default comparator of sort()
LexLess(a, b) ==
    \E j \in 1..(Len(a) + 1) :
        /\ \A h \in 1..(j - 1) : h <= Len(b) /\ a[h] = b[h]
        /\ \/ j > Len(a) /\ j <= Len(b)
           \/ j <= Len(a) /\ j <= Len(b) /\ a[j] < b[j]

RECURSIVE InsertSorted(_, _)
InsertSorted(s, x) ==
    IF s = <<>> THEN <<x>>
    ELSE IF LexLess(x, Head(s)) THEN <<x>> \o s
    ELSE <<Head(s)>> \o InsertSorted(Tail(s), x)

RECURSIVE Sort(_)
Sort(s) == IF s = <<>> THEN <<>> ELSE InsertSorted(Sort(Tail(s)), Head(s))

\* obj[key] !== undefined
HasKey(obj, key) == \E j \in DOMAIN obj : obj[j].key = key

\* obj[key]
Get(obj, key) == obj[CHOOSE j \in DOMAIN obj : obj[j].key = key].value

\* obj[key] = value: an existing key keeps its place and takes the new value
SetKey_KeepFirst(obj, key, value) ==
    IF HasKey(obj, key) THEN obj
    ELSE Append(obj, [key |-> key, value |-> value])

SetKey(obj, key, value) ==
    IF HasKey(obj, key)
    THEN [j \in DOMAIN obj |->
            IF obj[j].key = key THEN [key |-> key, value |-> value] ELSE obj[j]]
    ELSE Append(obj, [key |-> key, value |-> value])

ObjectKeys(obj) == [j \in DOMAIN obj |-> obj[j].key]

ObjectValues(obj) == [j \in DOMAIN obj |-> obj[j].value]

\* array.find((p) => p.productId === productId)
Find(monthData, productId) ==
    LET idx == {j \in DOMAIN monthData : monthData[j].productId = productId}
    IN  IF idx = {} THEN <<>> ELSE <<monthData[Min(idx)]>>

\* parseFloat((num / den).toFixed(2)), in hundredths; num >= 0, den > 0.
\* toFixed takes the nearest two-decimal value and the larger one on a tie.
ToFixed2(num, den) == (200 * num + den) \div (2 * den)

(***************************************************************************)
(* Step 1: consolidation of one order (l.27-53)                            *)
(***************************************************************************)
\* const rows = Array.isArray(order.rows) ? order.rows : []
RowsOf(order) == IF order.isArray THEN order.rows ELSE <<>>

\* product.productId of a null element throws a TypeError
RowsThrow(rows) == \E j \in DOMAIN rows : rows[j] = <<>>

NewProduct(product) ==
    [productId |-> product.productId,
     productName |-> product.productName,
     stockStatus |-> product.stockStatus,
     leftOver |-> 0,
     availability |-> "Unknown",
     average |-> 0,
     totalSales |-> 0,
     months |-> 0,
     enoughForMonths |-> 0]

MergeRow_Overwrite(existing, product) ==
    [existing EXCEPT !.stockStatus = product.stockStatus]

\* consolidatedStocks[productId].stockStatus += product.stockStatus
MergeRow(existing, product) ==
    [existing EXCEPT !.stockStatus = @ + product.stockStatus]

RECURSIVE ConsolidateFrom(_, _, _)
ConsolidateFrom(rows, j, consolidatedStocks) ==
    IF j > Len(rows) THEN consolidatedStocks
    ELSE LET product == rows[j][1]
             productId == product.productId
         IN  ConsolidateFrom(rows, j + 1,
                 IF HasKey(consolidatedStocks, productId)
                 THEN SetKey(consolidatedStocks, productId,
                          MergeRow(Get(consolidatedStocks, productId), product))
                 ELSE SetKey(consolidatedStocks, productId, NewProduct(product)))

\* Object.values(consolidatedStocks) of one order
ConsolidateRows(rows) == ObjectValues(ConsolidateFrom(rows, 1, <<>>))

(***************************************************************************)
(* Step 2: per product statistics (l.56-144)                               *)
(***************************************************************************)
RECURSIVE AddAll(_, _)
AddAll(ids, monthData) ==
    IF monthData = <<>> THEN ids
    ELSE AddAll(IF \E j \in DOMAIN ids : ids[j] = Head(monthData).productId
                THEN ids ELSE Append(ids, Head(monthData).productId),
                Tail(monthData))

RECURSIVE GatherFrom(_, _)
GatherFrom(ids, values) ==
    IF values = <<>> THEN ids
    ELSE GatherFrom(AddAll(ids, Head(values)), Tail(values))

\* l.57-62
GatherIds(data) == GatherFrom(<<>>, ObjectValues(data))

MonthKeys_Unsorted(data) == ObjectKeys(data)

\* Object.keys(monthlyConsolidatedData).sort() (l.71)
MonthKeys(data) == Sort(ObjectKeys(data))

\* l.74-83
PeakStock(data, keys, productId) ==
    Max({0} \cup {Find(Get(data, keys[j]), productId)[1].stockStatus :
                    j \in {h \in DOMAIN keys :
                             Find(Get(data, keys[h]), productId) # <<>>}})

FirstMonth_OwnStock(w, init, product) ==
    [w EXCEPT !.previousStock = product.stockStatus]

\* l.91-93
FirstMonth(w, init, product) == [w EXCEPT !.previousStock = init]

CountSale_KeepBase(w, sales, product) ==
    [w EXCEPT !.totalSales = @ + sales, !.validMonths = @ + 1]

\* l.98-101
CountSale(w, sales, product) ==
    [w EXCEPT !.totalSales = @ + sales,
              !.validMonths = @ + 1,
              !.previousStock = product.stockStatus]

SkipPeriod_KeepBase(w, product) == w

\* l.102-105 (the continue leaves the iteration)
SkipPeriod(w, product) == [w EXCEPT !.previousStock = product.stockStatus]

\* l.110-112
SetLeftOver(w, idx, n, product) ==
    IF idx = n - 1 THEN [w EXCEPT !.leftOver = product.stockStatus] ELSE w

AbsentMonth_Carry(w, idx, n) ==
    IF idx = n - 1 THEN [w EXCEPT !.leftOver = w.previousStock] ELSE w

\* l.90: nothing is done for a month without the product
AbsentMonth(w, idx, n) == w

\* one iteration of the loop of l.86-114
WalkIter(w, idx, n, found, init) ==
    IF found = <<>> THEN AbsentMonth(w, idx, n)
    ELSE LET product == found[1]
         IN  IF idx = 0
             THEN SetLeftOver(FirstMonth(w, init, product), idx, n, product)
             ELSE LET sales == w.previousStock - product.stockStatus
                  IN  IF sales > 0
                      THEN SetLeftOver(CountSale(w, sales, product),
                                       idx, n, product)
                      ELSE SkipPeriod(w, product)

\* l.66-72
WalkStart == [totalSales |-> 0, validMonths |-> 0, previousStock |-> 0,
              leftOver |-> 0]

\* l.117-143
FinalRecord(productId, data, keys, init, w) ==
    LET availability == IF w.leftOver > 0 THEN "Available" ELSE "Out of Stock"
        average == IF w.validMonths > 0
                   THEN ToFixed2(w.totalSales, w.validMonths) ELSE 0
        enoughForMonths == IF average > 0
                           THEN ToFixed2(100 * w.leftOver, average) ELSE 0
        first == Find(Get(data, keys[1]), productId)
        productName == IF first = <<>> THEN "" ELSE first[1].productName
    IN  [productId |-> productId,
         productName |-> productName,
         stockStatus |-> init,
         leftOver |-> w.leftOver,
         availability |-> availability,
         average |-> average,
         totalSales |-> w.totalSales,
         months |-> w.validMonths,
         enoughForMonths |-> enoughForMonths]

\* if (!orders || orders.length === 0)
NoOrders_IgnoreNull(res) == ~res.isNull /\ Len(res.list) = 0

NoOrders(res) == res.isNull \/ Len(res.list) = 0

(***************************************************************************)
(* Inputs                                                                  *)
(***************************************************************************)
Row(productId, productName, stockStatus) ==
    [productId |-> productId, productName |-> productName,
     stockStatus |-> stockStatus]

Order(name, isArray, rows) ==
    [name |-> name, isArray |-> isArray, rows |-> rows]

\* "01", "02", ...
ExampleKey(j) == <<j \div 10, j % 10>>

\* one product over up to MaxOrders snapshots, any month identifiers
SeriesStores ==
    LET rowLists == {<<>>} \cup {<< <<Row("A", "n1", s)>> >> : s \in 0..MaxStock}
    IN  UNION {[1..n -> {Order(m, TRUE, r) : m \in MonthIds, r \in rowLists}] :
                 n \in 0..MaxOrders}

\* the worked series of the specification and their prefixes
ExampleStores ==
    UNION {{[j \in 1..n |-> Order(ExampleKey(j), TRUE,
                                  << <<Row("A", "n1", s[j])>> >>)] :
                n \in 1..Len(s)} : s \in ExampleSeries}

\* the raw row at position j of a multi-row input; its name tells the rows
\* apart, and the kind <<"null", 0>> is a null element of the rows array
Slot(kind, j) ==
    IF kind[1] = "null" THEN <<>>
    ELSE << Row(kind[1], "n" \o ToString(j), kind[2]) >>

SlotKinds == {<<"null", 0>>} \cup (ProductIdSet \X (1..MaxStock))

\* up to MaxRows raw rows of two products, dealt in order to one snapshot or
\* to a pair of snapshots (owner[j] is the snapshot of row j); the second
\* month is the first one again, an earlier one or a later one; a snapshot
\* left without rows may have a rows field that is not an array
RowStore(flat, owner, names, notArray) ==
    [o \in DOMAIN names |->
        LET mine == {j \in DOMAIN flat : owner[j] = o}
            lo == Cardinality({j \in DOMAIN flat : owner[j] < o})
        IN  Order(names[o], o \notin notArray,
                  [r \in 1..Cardinality(mine) |-> Slot(flat[lo + r], lo + r)])]

Init ==
    /\ \/ store \in SeriesStores
       \/ store \in ExampleStores
       \/ \E n \in {1, 2}, m \in 1..MaxRows :
            \E flat \in [1..m -> SlotKinds],
               names \in {f \in [1..n -> MonthIds] : f[1] = <<1, 0>>} :
              \E owner \in {f \in [1..m -> 1..n] :
                              \A a, b \in 1..m : a <= b => f[a] <= f[b]} :
                \E notArray \in SUBSET {o \in 1..n :
                                          \A j \in 1..m : owner[j] # o} :
                  store = RowStore(flat, owner, names, notArray)
    /\ pc = "fetch"
    /\ orders = [isNull |-> FALSE, list |-> <<>>]
    /\ k = 0
    /\ monthlyConsolidatedData = <<>>
    /\ productIds = <<>>
    /\ p = 0
    /\ monthKeys = <<>>
    /\ initialStock = 0
    /\ previousStock = 0
    /\ totalSales = 0
    /\ validMonths = 0
    /\ leftOver = 0
    /\ i = 0
    /\ finalStockStatus = <<>>
    /\ returned = FALSE
    /\ result = <<>>
    /\ thrown = ""

(***************************************************************************)
(* stockAnalyzisBulk, step by step                                         *)
(***************************************************************************)
\* control reaches the catch clause (l.147)
Raise ==
    /\ pc' = "catch"
    /\ UNCHANGED <<store, k, monthlyConsolidatedData, productIds, p,
                   monthKeys, initialStock, previousStock, totalSales,
                   validMonths, leftOver, i, finalStockStatus, returned,
                   result, thrown>>

\* l.18-24: the awaited query settles: it rejects, or resolves with the
\* stored orders or with null; an empty result is returned at once
Fetch ==
    /\ pc = "fetch"
    /\ \/ /\ Raise
          /\ UNCHANGED orders
       \/ \E res \in {[isNull |-> FALSE, list |-> store],
                      [isNull |-> TRUE, list |-> <<>>]} :
            /\ orders' = res
            /\ IF NoOrders(res)
               THEN /\ pc' = "done"
                    /\ returned' = TRUE
                    /\ result' = <<>>
               ELSE /\ pc' = "consolidate"
                    /\ UNCHANGED <<returned, result>>
            /\ UNCHANGED <<store, k, monthlyConsolidatedData, productIds, p,
                           monthKeys, initialStock, previousStock, totalSales,
                           validMonths, leftOver, i, finalStockStatus, thrown>>

\* l.27-53: one iteration of the loop over the orders; iterating null throws
Consolidate ==
    /\ pc = "consolidate"
    /\ orders.isNull \/ k < Len(orders.list)
    /\ IF orders.isNull \/ RowsThrow(RowsOf(orders.list[k + 1]))
       THEN /\ Raise
            /\ UNCHANGED orders
       ELSE LET order == orders.list[k + 1]
            IN  /\ monthlyConsolidatedData' =
                       SetKey(monthlyConsolidatedData, order.name,
                              ConsolidateRows(RowsOf(order)))
                /\ k' = k + 1
                /\ UNCHANGED <<store, pc, orders, productIds, p, monthKeys,
                               initialStock, previousStock, totalSales,
                               validMonths, leftOver, i, finalStockStatus,
                               returned, result, thrown>>

\* l.56-62
Gather ==
    /\ pc = "consolidate"
    /\ ~orders.isNull
    /\ k = Len(orders.list)
    /\ productIds' = GatherIds(monthlyConsolidatedData)
    /\ pc' = "product"
    /\ UNCHANGED <<store, orders, k, monthlyConsolidatedData, p, monthKeys,
                   initialStock, previousStock, totalSales, validMonths,
                   leftOver, i, finalStockStatus, returned, result, thrown>>

\* l.65-83: the callback of productIds.forEach is entered for the next id
StartProduct ==
    /\ pc = "product"
    /\ p < Len(productIds)
    /\ monthKeys' = MonthKeys(monthlyConsolidatedData)
    /\ initialStock' = PeakStock(monthlyConsolidatedData, monthKeys',
                                 productIds[p + 1])
    /\ totalSales' = WalkStart.totalSales
    /\ validMonths' = WalkStart.validMonths
    /\ previousStock' = WalkStart.previousStock
    /\ leftOver' = WalkStart.leftOver
    /\ i' = 0
    /\ pc' = "walk"
    /\ UNCHANGED <<store, orders, k, monthlyConsolidatedData, productIds, p,
                   finalStockStatus, returned, result, thrown>>

\* l.86-114: one iteration of the sales walk
WalkStep ==
    /\ pc = "walk"
    /\ i < Len(monthKeys)
    /\ LET w == [totalSales |-> totalSales, validMonths |-> validMonths,
                 previousStock |-> previousStock, leftOver |-> leftOver]
           found == Find(Get(monthlyConsolidatedData, monthKeys[i + 1]),
                         productIds[p + 1])
           w2 == WalkIter(w, i, Len(monthKeys), found, initialStock)
       IN  /\ totalSales' = w2.totalSales
           /\ validMonths' = w2.validMonths
           /\ previousStock' = w2.previousStock
           /\ leftOver' = w2.leftOver
    /\ i' = i + 1
    /\ UNCHANGED <<store, pc, orders, k, monthlyConsolidatedData, productIds,
                   p, monthKeys, initialStock, finalStockStatus, returned,
                   result, thrown>>

\* l.116-143: the record of the product is pushed
FinishProduct ==
    /\ pc = "walk"
    /\ i = Len(monthKeys)
    /\ finalStockStatus' =
           Append(finalStockStatus,
                  FinalRecord(productIds[p + 1], monthlyConsolidatedData,
                              monthKeys, initialStock,
                              [totalSales |-> totalSales,
                               validMonths |-> validMonths,
                               previousStock |-> previousStock,
                               leftOver |-> leftOver]))
    /\ p' = p + 1
    /\ pc' = "product"
    /\ UNCHANGED <<store, orders, k, monthlyConsolidatedData, productIds,
                   monthKeys, initialStock, previousStock, totalSales,
                   validMonths, leftOver, i, returned, result, thrown>>

\* l.146
Return ==
    /\ pc = "product"
    /\ p = Len(productIds)
    /\ returned' = TRUE
    /\ result' = finalStockStatus
    /\ pc' = "done"
    /\ UNCHANGED <<store, orders, k, monthlyConsolidatedData, productIds, p,
                   monthKeys, initialStock, previousStock, totalSales,
                   validMonths, leftOver, i, finalStockStatus, thrown>>

\* l.147-150
Catch ==
    /\ pc = "catch"
    /\ thrown' = "Error While searching data"
    /\ pc' = "failed"
    /\ UNCHANGED <<store, orders, k, monthlyConsolidatedData, productIds, p,
                   monthKeys, initialStock, previousStock, totalSales,
                   validMonths, leftOver, i, finalStockStatus, returned,
                   result>>

Next ==
    \/ Fetch
    \/ Consolidate
    \/ Gather
    \/ StartProduct
    \/ WalkStep
    \/ FinishProduct
    \/ Return
    \/ Catch

Spec == Init /\ [][Next]_vars

(***************************************************************************)
(* The function as a whole, for a list of orders none of which throws      *)
(***************************************************************************)
RECURSIVE ConsolidateAll(_, _, _)
ConsolidateAll(list, j, data) ==
    IF j > Len(list) THEN data
    ELSE ConsolidateAll(list, j + 1,
             SetKey(data, list[j].name, ConsolidateRows(RowsOf(list[j]))))

RECURSIVE WalkFrom(_, _, _, _, _, _)
WalkFrom(w, idx, keys, data, productId, init) ==
    IF idx >= Len(keys) THEN w
    ELSE WalkFrom(WalkIter(w, idx, Len(keys),
                           Find(Get(data, keys[idx + 1]), productId), init),
                  idx + 1, keys, data, productId, init)

AnalyseProduct(data, productId) ==
    LET keys == MonthKeys(data)
        init == PeakStock(data, keys, productId)
    IN  FinalRecord(productId, data, keys, init,
                    WalkFrom(WalkStart, 0, keys, data, productId, init))

stockAnalyzisBulkOf(list) ==
    LET data == ConsolidateAll(list, 1, <<>>)
        ids == GatherIds(data)
    IN  [j \in DOMAIN ids |-> AnalyseProduct(data, ids[j])]

(***************************************************************************)
(* Vocabulary of the properties                                            *)
(***************************************************************************)
\* the month identifiers of the consolidated data
Keys == {monthlyConsolidatedData[j].key : j \in DOMAIN monthlyConsolidatedData}

NumMonths == Cardinality(Keys)

\* the month at chronological position r (1 is the first month)
KeyAt(r) == CHOOSE x \in Keys : Cardinality({y \in Keys : LexLess(y, x)}) = r - 1

PresentAt(r, productId) ==
    \E j \in DOMAIN Get(monthlyConsolidatedData, KeyAt(r)) :
        Get(monthlyConsolidatedData, KeyAt(r))[j].productId = productId

StockAt(r, productId) ==
    LET monthData == Get(monthlyConsolidatedData, KeyAt(r))
    IN  monthData[CHOOSE j \in DOMAIN monthData :
                     monthData[j].productId = productId].stockStatus

PresentMonths(productId) == {r \in 1..NumMonths : PresentAt(r, productId)}

Peak(productId) ==
    Max({0} \cup {StockAt(r, productId) : r \in PresentMonths(productId)})

\* r and t are months of the product with none of its months in between
Consecutive(r, t, productId) ==
    /\ r \in PresentMonths(productId)
    /\ t \in PresentMonths(productId)
    /\ r < t
    /\ \A u \in PresentMonths(productId) : ~(r < u /\ u < t)

\* the store holds the worked series s of product A
IsExample(s) ==
    /\ store \in ExampleStores
    /\ Len(store) = Len(s)
    /\ \A j \in DOMAIN s : store[j].rows[1][1].stockStatus = s[j]

\* the product of the walk in progress
Current == productIds[p + 1]

RECURSIVE SumStock(_, _)
SumStock(rows, productId) ==
    IF rows = <<>> THEN 0
    ELSE (IF Head(rows)[1].productId = productId
          THEN Head(rows)[1].stockStatus ELSE 0) + SumStock(Tail(rows), productId)

Injections(n) ==
    {f \in [1..n -> 1..n] : \A a, b \in 1..n : f[a] = f[b] => a = b}

Records(list) == {list[j] : j \in DOMAIN list}

DistinctNames(list) ==
    \A a, b \in DOMAIN list : list[a].name = list[b].name => a = b

\* the index of the last order of the store that carries the name
LastNamed(name) == Max({j \in DOMAIN store : store[j].name = name})

(***************************************************************************)
(* C1: a product present in the chronologically last month is reported     *)
(* with leftOver equal to its consolidated stock of that month; for the     *)
(* series 100, 60, 60: leftOver 60, "Available", enoughForMonths 1.50.      *)
(***************************************************************************)
C1_LeftOverIsLastMonthStock ==
    pc = "done" =>
        \A j \in DOMAIN result :
            /\ PresentAt(NumMonths, result[j].productId) =>
                   result[j].leftOver = StockAt(NumMonths, result[j].productId)
            /\ IsExample(<<100, 60, 60>>) =>
                   /\ result[j].leftOver = 60
                   /\ result[j].availability = "Available"
                   /\ result[j].enoughForMonths = 150

(***************************************************************************)
(* C2: a product whose stock never decreases from one of its months to the *)
(* next has months = 0, totalSales = 0, average = 0, enoughForMonths = 0.  *)
(***************************************************************************)
NonDecreasing(productId) ==
    \A r, t \in 1..NumMonths :
        Consecutive(r, t, productId) =>
            StockAt(r, productId) <= StockAt(t, productId)

C2_NoSalesWithoutDecrease ==
    pc = "done" =>
        \A j \in DOMAIN result :
            NonDecreasing(result[j].productId) =>
                /\ result[j].months = 0
                /\ result[j].totalSales = 0
                /\ result[j].average = 0
                /\ result[j].enoughForMonths = 0

(***************************************************************************)
(* C3: a product present in every month whose stock strictly decreases     *)
(* from each month to the next has months = number of months - 1 and       *)
(* totalSales = peak stock - stock of the last month.                      *)
(***************************************************************************)
StrictlyDecreasing(productId) ==
    /\ PresentMonths(productId) = 1..NumMonths
    /\ \A r \in 1..(NumMonths - 1) :
           StockAt(r, productId) > StockAt(r + 1, productId)

C3_StrictDecrease ==
    pc = "done" =>
        \A j \in DOMAIN result :
            StrictlyDecreasing(result[j].productId) =>
                /\ result[j].months = NumMonths - 1
                /\ result[j].totalSales =
                       Peak(result[j].productId)
                           - StockAt(NumMonths, result[j].productId)

C3_Witness ==
    /\ pc = "done"
    /\ NumMonths = 3
    /\ \E j \in DOMAIN result :
           /\ StrictlyDecreasing(result[j].productId)
           /\ result[j].months = 2
           /\ result[j].totalSales = 2

(***************************************************************************)
(* C4: in the sales walk a month with previousStock - stock <= 0 is not    *)
(* counted and adds nothing to totalSales, yet previousStock becomes that  *)
(* month's stock; the series 50, 30, 80, 20 has exactly two valid sales    *)
(* months, the second and the fourth month, the third being skipped.       *)
(***************************************************************************)
C4_RestockSkipped ==
    [][/\ ( /\ pc = "walk"
            /\ 0 < i
            /\ i < NumMonths
            /\ PresentAt(i + 1, Current)
            /\ previousStock - StockAt(i + 1, Current) <= 0 )
          => /\ validMonths' = validMonths
             /\ totalSales' = totalSales
             /\ previousStock' = StockAt(i + 1, Current)
       /\ (IsExample(<<50, 30, 80, 20>>) /\ pc = "walk" /\ i < NumMonths)
          => /\ validMonths' = validMonths + (IF i \in {1, 3} THEN 1 ELSE 0)
             /\ i = 2 => previousStock' = 80 /\ totalSales' = totalSales
             /\ i = 3 => totalSales' = totalSales + 60
       /\ (IsExample(<<50, 30, 80, 20>>) /\ pc' = "done" /\ ~orders'.isNull)
          => Len(result') = 1 /\ result'[1].months = 2
      ]_vars

C4_Witness ==
    /\ IsExample(<<50, 30, 80, 20>>)
    /\ pc = "walk"
    /\ i = 3
    /\ validMonths = 1
    /\ previousStock = 80

(***************************************************************************)
(* C5: a product without a record in the chronologically last month has    *)
(* leftOver 0 and availability "Out of Stock", whatever the walk carried.  *)
(***************************************************************************)
C5_AbsentLastMonth ==
    pc = "done" =>
        \A j \in DOMAIN result :
            ~PresentAt(NumMonths, result[j].productId) =>
                /\ result[j].leftOver = 0
                /\ result[j].availability = "Out of Stock"

C5_Witness ==
    /\ pc = "done"
    /\ result # <<>>
    /\ ~PresentAt(NumMonths, result[Len(result)].productId)
    /\ previousStock > 0
    /\ result[Len(result)].stockStatus > 0
    /\ result[Len(result)].leftOver = 0

(***************************************************************************)
(* C6: the record list stored for a snapshot holds at most one record per  *)
(* productId, whose stockStatus is the sum over the raw rows of that       *)
(* productId and whose productName is that of the first such row; rows     *)
(* that are not a list give the empty record list.                         *)
(***************************************************************************)
C6_Consolidated ==
    (pc = "consolidate" /\ k >= 1) =>
        LET order == orders.list[k]
            monthData == Get(monthlyConsolidatedData, order.name)
        IN  /\ ~order.isArray => monthData = <<>>
            /\ \A a, b \in DOMAIN monthData :
                   monthData[a].productId = monthData[b].productId => a = b
            /\ order.isArray =>
                 \A productId \in ProductIdSet :
                   LET idx == {j \in DOMAIN order.rows :
                                 order.rows[j][1].productId = productId}
                       recs == {a \in DOMAIN monthData :
                                  monthData[a].productId = productId}
                   IN  IF idx = {} THEN recs = {}
                       ELSE \E a \in recs :
                              /\ monthData[a].stockStatus =
                                     SumStock(order.rows, productId)
                              /\ monthData[a].productName =
                                     order.rows[Min(idx)][1].productName

C6_Witness ==
    /\ pc = "consolidate"
    /\ k >= 1
    /\ Len(orders.list[k].rows) = 3
    /\ orders.list[k].rows[1][1].productId = "A"
    /\ orders.list[k].rows[2][1].productId = "B"
    /\ orders.list[k].rows[3][1].productId = "A"
    /\ orders.list[k].rows[1][1].stockStatus = 1
    /\ orders.list[k].rows[3][1].stockStatus = 2
    /\ Get(monthlyConsolidatedData, orders.list[k].name)[1].stockStatus = 3
    /\ Get(monthlyConsolidatedData, orders.list[k].name)[1].productName = "n1"

(***************************************************************************)
(* C7: the call ends in one of two ways: it returns the complete list, or  *)
(* it throws the one generic error and returns nothing; an empty or null   *)
(* fetch result gives the empty list and no consolidation or analysis.     *)
(***************************************************************************)
C7_AllOrNothing ==
    /\ pc \in {"done", "failed"} <=> (returned \/ thrown # "")
    /\ pc = "done" =>
           /\ returned
           /\ thrown = ""
           /\ result = finalStockStatus
           /\ Len(result) = Len(productIds)
           /\ {result[j].productId : j \in DOMAIN result} =
                  UNION {{Get(monthlyConsolidatedData, key)[j].productId :
                             j \in DOMAIN Get(monthlyConsolidatedData, key)} :
                         key \in Keys}
    /\ pc = "failed" =>
           /\ ~returned
           /\ result = <<>>
           /\ thrown = "Error While searching data"
    /\ (pc # "fetch" /\ pc # "catch" /\ pc # "failed"
            /\ (orders.isNull \/ orders.list = <<>>)) =>
           /\ pc = "done"
           /\ result = <<>>
           /\ k = 0
           /\ monthlyConsolidatedData = <<>>
           /\ productIds = <<>>

C7_Witness ==
    /\ pc = "failed"
    /\ monthlyConsolidatedData # <<>>
    /\ ~returned
    /\ thrown = "Error While searching data"

(***************************************************************************)
(* C8 (as stated): after index 0 of the walk previousStock is the peak     *)
(* stock of the product, also when it has no record in the first month, so *)
(* the first delta, at the first later month where it is present, is peak  *)
(* minus that month's stock.                                               *)
(***************************************************************************)
\* the walk has not yet met the product in a month of index > 0
NoDeltaYet == \A r \in 2..i : ~PresentAt(r, Current)

FirstDeltaFrom(base) ==
    /\ (pc = "walk" /\ i = 0 /\ NumMonths > 0) => previousStock' = base
    /\ ( /\ pc = "walk"
         /\ 0 < i
         /\ i < NumMonths
         /\ NoDeltaYet
         /\ PresentAt(i + 1, Current) )
       => /\ previousStock = base
          /\ IF base - StockAt(i + 1, Current) > 0
             THEN /\ totalSales' = base - StockAt(i + 1, Current)
                  /\ validMonths' = 1
             ELSE /\ totalSales' = 0
                  /\ validMonths' = 0

C8_PreviousStockStartsAtPeak == [][FirstDeltaFrom(Peak(Current))]_vars

(***************************************************************************)
(* C8 (amended): previousStock is set to the peak stock at index 0 only    *)
(* when the product has a record in the first month; otherwise it is still *)
(* 0 at the first month where the product is present, so the first delta   *)
(* is peak minus that month's stock in the first case and 0 minus that     *)
(* month's stock (never a sale) in the second.                             *)
(***************************************************************************)
C8_PreviousStockStartsAtPeakIfPresent ==
    [][FirstDeltaFrom(IF PresentAt(1, Current) THEN Peak(Current) ELSE 0)]_vars

C8_Witness ==
    /\ pc = "walk"
    /\ i = 2
    /\ PresentAt(1, Current)
    /\ PresentAt(2, Current)
    /\ StockAt(1, Current) < Peak(Current)
    /\ StockAt(2, Current) < Peak(Current)
    /\ totalSales = Peak(Current) - StockAt(2, Current)
    /\ validMonths = 1

(***************************************************************************)
(* C9: for snapshots with pairwise distinct month identifiers, every       *)
(* permutation of the input gives the same analytics record per productId. *)
(***************************************************************************)
C9_OrderIndependent ==
    (pc = "done" /\ ~orders.isNull /\ DistinctNames(store)) =>
        \A f \in Injections(Len(store)) :
            LET permuted == stockAnalyzisBulkOf([j \in DOMAIN store |-> store[f[j]]])
            IN  /\ Records(permuted) = Records(result)
                /\ Len(permuted) = Len(result)

C9_Witness ==
    /\ pc = "done"
    /\ ~orders.isNull
    /\ DistinctNames(store)
    /\ Len(store) = 3
    /\ LexLess(store[3].name, store[1].name)
    /\ LexLess(store[1].name, store[2].name)
    /\ result # <<>>
    /\ result[1].months = 1
    /\ result[1].leftOver = 1
    /\ result[1].productName = ""

(***************************************************************************)
(* C10: of the snapshots that carry the same month identifier only the     *)
(* last of the input counts: the month holds the consolidated rows of that *)
(* one alone, the months walked are the distinct identifiers, and a        *)
(* product seen only in overwritten snapshots has no record in the output. *)
(***************************************************************************)
C10_LastSnapshotWins ==
    (pc = "done" /\ ~orders.isNull) =>
        /\ Keys = {store[j].name : j \in DOMAIN store}
        /\ \A key \in Keys :
               Get(monthlyConsolidatedData, key) =
                   ConsolidateRows(RowsOf(store[LastNamed(key)]))
        /\ result # <<>> =>
               Len(monthKeys) = Cardinality({store[j].name : j \in DOMAIN store})
        /\ {result[j].productId : j \in DOMAIN result} =
               {productId \in ProductIdSet :
                   \E j \in DOMAIN store :
                       /\ j = LastNamed(store[j].name)
                       /\ \E r \in DOMAIN RowsOf(store[j]) :
                              RowsOf(store[j])[r][1].productId = productId}

C10_Witness ==
    /\ pc = "done"
    /\ ~orders.isNull
    /\ Len(store) = 2
    /\ store[1].name = store[2].name
    /\ \E r \in DOMAIN store[1].rows : store[1].rows[r][1].productId = "B"
    /\ \A j \in DOMAIN result : result[j].productId = "A"
    /\ result # <<>>
    /\ Len(monthKeys) = 1
====
